---- MODULE Spec2Model ----
(***************************************************************************)
(* Chart editor of DilmaTT/newstattment: the pointer-driven drag / resize *)
(* state machine of ChartEditor (src/unnamed/part_000), with the button   *)
(* collection, the property dialog, the canvas dimension fields and the   *)
(* window listener effect that the machine reads from and writes to, the  *)
(* commit of the chart on the back button, and the activation of buttons  *)
(* in ChartViewer (src/unnamed/part_001).                                  *)
(*                                                                         *)
(* Every handler is one action.  React re-renders between two events, so  *)
(* a handler reads the state the previous handler left, and the listener  *)
(* effect of lines 367-386 runs with the render that follows the handler. *)
(***************************************************************************)
EXTENDS Integers, Sequences, FiniteSets, TLC

VARIABLES
  chart,              \* the chart prop of the mounted component (line 26)
  chartName,          \* useState(chart.name)               (line 35)
  buttons,            \* useState<ChartButton[]>           (line 36)
  canvasWidth,        \* useState(chart.canvasWidth || 800) (line 37)
  canvasHeight,       \* useState(chart.canvasHeight || 500) (line 38)
  isButtonModalOpen,  \* line 39
  editingButton,      \* line 40
  activeButtonId,     \* line 43
  isDragging,         \* line 44
  isResizing,         \* line 45
  dragOffset,         \* line 46
  resizeDirection,    \* line 47
  listeners,          \* window listeners registered by the effect (367-386)
  mounted,            \* the component is mounted
  allRanges,          \* folders.flatMap(...) of the range context (line 33)
  now,                \* Date.now(), read by handleAddButton (line 60)
  lastEvent,          \* the kind of event the last step handled
  pointer,            \* the last move event: clientX, clientY, canvas left, top
  moves,              \* move events handled so far (counted by SpecMove only)
  saved,              \* the charts the last handler passed to onSaveChart
  effects,            \* what else the last handler emitted, in order
  viewerMounted,      \* ChartViewer (src/unnamed/part_001) is mounted
  isMobileMode,       \* the viewer's isMobileMode prop     (part_001:16)
  displayedRange,     \* the viewer's useState<Range | null> (part_001:18)
  showMatrixView,     \* part_001:19
  viewportSize,       \* part_001:20
  activated           \* the button the viewer's last activation was given

vars == <<buttons, canvasWidth, canvasHeight, isButtonModalOpen, editingButton,
          activeButtonId, isDragging, isResizing, dragOffset, resizeDirection,
          listeners, mounted, allRanges, now, lastEvent, pointer, moves,
          chart, chartName, saved, effects, viewerMounted, isMobileMode,
          displayedRange, showMatrixView, viewportSize, activated>>

session == <<activeButtonId, isDragging, isResizing, dragOffset, resizeDirection>>
canvas  == <<canvasWidth, canvasHeight>>
dialog  == <<isButtonModalOpen, editingButton>>
world   == <<mounted, allRanges, now, pointer>>
props   == <<chart, chartName>>
viewer  == <<viewerMounted, isMobileMode, displayedRange, showMatrixView,
             viewportSize, activated>>
editor  == <<chartName, buttons, canvas, dialog, session, listeners, mounted,
             now, pointer, moves>>

-----------------------------------------------------------------------------
(* Bounds of the model *)

\* Add button is offered while fewer than MaxButtons buttons exist.
MaxButtons == 2
\* Date.now() advances at most to MaxClock.
MaxClock == 3
\* SpecMove follows each drawn session for MaxMoves move events.
MaxMoves == 2

-----------------------------------------------------------------------------
(* Values of the program *)

\* null of activeButtonId / of a button id that is absent
NoId == 0
\* null of resizeDirection
NoDirection == "null"
\* null of editingButton
NoButton == [id |-> NoId]
\* the result of parseInt on a string that holds no number
NaN == -1000000

minSize == 50
tolerance == 8
minCanvasSize == 100
defaultCanvasWidth == 800
defaultCanvasHeight == 500

Max(a, b) == IF a >= b THEN a ELSE b
Min(a, b) == IF a <= b THEN a ELSE b

Directions == {"n", "s", "e", "w", "ne", "nw", "se", "sw"}

-----------------------------------------------------------------------------
(* Inputs the environment supplies *)

\* a window-level move event and the canvas origin at that event:
\* (clientX, clientY, canvasRect.left, canvasRect.top); the origin is read
\* per event (lines 170, 260).  Spec moves the pointer far outside the
\* canvas on either side; SpecMove adds positions inside it.
PointerEvents ==
  {<<-1000, -1000, 0, 0>>, <<2020, 2010, 20, 10>>}
MovePointerEvents ==
  PointerEvents \cup
  {<<1000, 1000, 0, 0>>, <<50, 50, 0, 0>>, <<-50, -50, 0, 0>>,
   <<180, 130, 0, 0>>, <<180, 130, 20, 10>>, <<95, 620, 0, 0>>}
\* what a canvas dimension field can parse to, and a size field of the dialog
DimensionInputs == {NaN, 30, 100}
SizeInputs == {NaN, 30, 900}
\* parentElement.clientWidth and window.innerHeight - top - 24, for Maximize
ParentWidths == {90, 640}
AvailableHeights == {60, 424}
\* the size the browser lays the canvas out with when its style width or
\* height is not a length (NaN or negative): decided by the page, not here
LayoutSizes == {0, 640}

-----------------------------------------------------------------------------
(* The button collection *)

HasButton(id) == \E i \in DOMAIN buttons : buttons[i].id = id

\* buttons.find(b => b.id === id): the first match
FindButton(id) ==
  buttons[CHOOSE i \in DOMAIN buttons :
            /\ buttons[i].id = id
            /\ \A j \in 1..(i - 1) : buttons[j].id # id]

\* canvasRect.width / height: the canvas is rendered with
\* style={{ width: canvasWidth, height: canvasHeight }} (line 498)
RenderedSizes(v) == IF v = NaN \/ v < 0 THEN LayoutSizes ELSE {v}

\* the local positions of a press on a box, per axis: one in the near band,
\* one past it and one in the far band
LocalCoords(len) == {c \in {3, 10, len - 3} : 0 <= c /\ c <= len}

-----------------------------------------------------------------------------
(* 4.1 Hit-zone classifier *)

\* the if-chain of lines 109-116 with the four edge tests ahead of the four
\* corner tests
getResizeDirection_EdgesFirst(x, y, rectWidth, rectHeight) ==
  IF x < tolerance THEN "w"
  ELSE IF x > rectWidth - tolerance THEN "e"
  ELSE IF y < tolerance THEN "n"
  ELSE IF y > rectHeight - tolerance THEN "s"
  ELSE NoDirection

getResizeDirection(x, y, rectWidth, rectHeight) ==
  IF x < tolerance /\ y < tolerance THEN "nw"
  ELSE IF x > rectWidth - tolerance /\ y < tolerance THEN "ne"
  ELSE IF x < tolerance /\ y > rectHeight - tolerance THEN "sw"
  ELSE IF x > rectWidth - tolerance /\ y > rectHeight - tolerance THEN "se"
  ELSE IF x < tolerance THEN "w"
  ELSE IF x > rectWidth - tolerance THEN "e"
  ELSE IF y < tolerance THEN "n"
  ELSE IF y > rectHeight - tolerance THEN "s"
  ELSE NoDirection

-----------------------------------------------------------------------------
(* 4.3 Geometry of one move.  rect is canvasRect: [left, top, width, height] *)

\* the isDragging branch without lines 178-179: the position follows the
\* pointer and is never held against the canvas edges
MouseDragGeometry_Unclamped(b, clientX, clientY, rect) ==
  [x |-> clientX - dragOffset.x - rect.left,
   y |-> clientY - dragOffset.y - rect.top,
   width |-> b.width, height |-> b.height]

\* handleMouseMove, the isDragging branch (lines 175-180)
MouseDragGeometry(b, clientX, clientY, rect) ==
  LET newX == clientX - dragOffset.x - rect.left
      newY == clientY - dragOffset.y - rect.top
  IN  [x |-> Max(0, Min(newX, rect.width - b.width)),
       y |-> Max(0, Min(newY, rect.height - b.height)),
       width |-> b.width, height |-> b.height]

\* handleMouseMove, the switch of the isResizing branch (lines 188-236)
MouseResizeCandidate(b, dir, clientX, clientY, rect) ==
  LET cur == [x |-> b.x, y |-> b.y, width |-> b.width, height |-> b.height]
      diffX == clientX - (b.x + rect.left)
      diffY == clientY - (b.y + rect.top)
  IN  CASE dir = "e" ->
             [cur EXCEPT !.width = Max(minSize, clientX - (b.x + rect.left))]
        [] dir = "s" ->
             [cur EXCEPT !.height = Max(minSize, clientY - (b.y + rect.top))]
        [] dir = "w" ->
             [cur EXCEPT !.width = Max(minSize, b.width - diffX),
                         !.x = b.x + diffX]
        [] dir = "n" ->
             [cur EXCEPT !.height = Max(minSize, b.height - diffY),
                         !.y = b.y + diffY]
        [] dir = "se" ->
             [cur EXCEPT !.width = Max(minSize, clientX - (b.x + rect.left)),
                         !.height = Max(minSize, clientY - (b.y + rect.top))]
        [] dir = "sw" ->
             [cur EXCEPT !.width = Max(minSize, b.width - diffX),
                         !.x = b.x + diffX,
                         !.height = Max(minSize, clientY - (b.y + rect.top))]
        [] dir = "ne" ->
             [cur EXCEPT !.width = Max(minSize, clientX - (b.x + rect.left)),
                         !.height = Max(minSize, b.height - diffY),
                         !.y = b.y + diffY]
        [] dir = "nw" ->
             [cur EXCEPT !.width = Max(minSize, b.width - diffX),
                         !.x = b.x + diffX,
                         !.height = Max(minSize, b.height - diffY),
                         !.y = b.y + diffY]
        [] OTHER -> cur

\* the boundary clamp without lines 241-242: the position is held against the
\* canvas edges, the size is not cut to what is left of the canvas
MouseResizeClamp_PositionOnly(c, rect) ==
  [x |-> Max(0, Min(c.x, rect.width - c.width)),
   y |-> Max(0, Min(c.y, rect.height - c.height)),
   width |-> c.width, height |-> c.height]

\* handleMouseMove, "Ensure button stays within canvas boundaries" (239-242)
MouseResizeClamp(c, rect) ==
  LET newX == Max(0, Min(c.x, rect.width - c.width))
      newY == Max(0, Min(c.y, rect.height - c.height))
  IN  [x |-> newX, y |-> newY,
       width |-> Min(c.width, rect.width - newX),
       height |-> Min(c.height, rect.height - newY)]

MouseResizeGeometry(b, dir, clientX, clientY, rect) ==
  MouseResizeClamp(MouseResizeCandidate(b, dir, clientX, clientY, rect), rect)

\* the isDragging branch of handleTouchMove with the touch position taken as
\* canvas-local: canvasRect.left and canvasRect.top are not subtracted
TouchDragGeometry_IgnoresOrigin(b, clientX, clientY, rect) ==
  LET newX == clientX - dragOffset.x
      newY == clientY - dragOffset.y
  IN  [x |-> Max(0, Min(newX, rect.width - b.width)),
       y |-> Max(0, Min(newY, rect.height - b.height)),
       width |-> b.width, height |-> b.height]

\* handleTouchMove, the isDragging branch (lines 265-270)
TouchDragGeometry(b, clientX, clientY, rect) ==
  LET newX == clientX - dragOffset.x - rect.left
      newY == clientY - dragOffset.y - rect.top
  IN  [x |-> Max(0, Min(newX, rect.width - b.width)),
       y |-> Max(0, Min(newY, rect.height - b.height)),
       width |-> b.width, height |-> b.height]

\* handleTouchMove, the switch of the isResizing branch (lines 278-326)
TouchResizeCandidate(b, dir, clientX, clientY, rect) ==
  LET cur == [x |-> b.x, y |-> b.y, width |-> b.width, height |-> b.height]
      diffX == clientX - (b.x + rect.left)
      diffY == clientY - (b.y + rect.top)
  IN  CASE dir = "e" ->
             [cur EXCEPT !.width = Max(minSize, clientX - (b.x + rect.left))]
        [] dir = "s" ->
             [cur EXCEPT !.height = Max(minSize, clientY - (b.y + rect.top))]
        [] dir = "w" ->
             [cur EXCEPT !.width = Max(minSize, b.width - diffX),
                         !.x = b.x + diffX]
        [] dir = "n" ->
             [cur EXCEPT !.height = Max(minSize, b.height - diffY),
                         !.y = b.y + diffY]
        [] dir = "se" ->
             [cur EXCEPT !.width = Max(minSize, clientX - (b.x + rect.left)),
                         !.height = Max(minSize, clientY - (b.y + rect.top))]
        [] dir = "sw" ->
             [cur EXCEPT !.width = Max(minSize, b.width - diffX),
                         !.x = b.x + diffX,
                         !.height = Max(minSize, clientY - (b.y + rect.top))]
        [] dir = "ne" ->
             [cur EXCEPT !.width = Max(minSize, clientX - (b.x + rect.left)),
                         !.height = Max(minSize, b.height - diffY),
                         !.y = b.y + diffY]
        [] dir = "nw" ->
             [cur EXCEPT !.width = Max(minSize, b.width - diffX),
                         !.x = b.x + diffX,
                         !.height = Max(minSize, b.height - diffY),
                         !.y = b.y + diffY]
        [] OTHER -> cur

\* handleTouchMove, the boundary clamp (lines 329-332)
TouchResizeClamp(c, rect) ==
  LET newX == Max(0, Min(c.x, rect.width - c.width))
      newY == Max(0, Min(c.y, rect.height - c.height))
  IN  [x |-> newX, y |-> newY,
       width |-> Min(c.width, rect.width - newX),
       height |-> Min(c.height, rect.height - newY)]

TouchResizeGeometry(b, dir, clientX, clientY, rect) ==
  TouchResizeClamp(TouchResizeCandidate(b, dir, clientX, clientY, rect), rect)

\* prev.map(btn => btn.id === id ? { ...btn, ...g } : btn)
WithGeometry(id, g) ==
  [i \in DOMAIN buttons |->
     IF buttons[i].id = id
       THEN [buttons[i] EXCEPT !.x = g.x, !.y = g.y,
                               !.width = g.width, !.height = g.height]
       ELSE buttons[i]]

\* the drag branch writes x and y only: { ...btn, x: newX, y: newY }
WithPosition(id, g) ==
  [i \in DOMAIN buttons |->
     IF buttons[i].id = id
       THEN [buttons[i] EXCEPT !.x = g.x, !.y = g.y]
       ELSE buttons[i]]

-----------------------------------------------------------------------------
(* The listener effect (lines 367-386) *)

ListenerTypes == {"mousemove", "mouseup", "touchmove", "touchend"}

\* A registered listener: its event type, and whether the handler belongs to
\* a render older than the one whose effect ran last (a leaked handler).
Registered(types, stale) == {[type |-> t, stale |-> stale] : t \in types}

\* a cleanup that passes removeEventListener handlers of another render: it
\* removes nothing, and what was registered stays behind
EffectCleanup_Leaky(ls) == {[l EXCEPT !.stale = TRUE] : l \in ls}

\* the cleanup returned by the previous run (lines 380-385): it removes the
\* four handlers that run registered, which are the ones not stale
EffectCleanup(ls) == {l \in ls : l.stale}

\* one run of the effect after a render in which its deps changed: the
\* previous cleanup, then the body (lines 368-378)
ListenerEffect(ls, active) ==
  EffectCleanup(ls) \cup (IF active THEN Registered(ListenerTypes, FALSE) ELSE {})

\* the deps of the effect: isDragging, isResizing and the handlers, whose
\* identity follows their own deps (lines 251, 341, 348, 386)
EffectDeps ==
  <<isDragging, isResizing, activeButtonId, dragOffset, resizeDirection, buttons>>

\* the render that follows a handler, with the effect it schedules
Render ==
  listeners' = IF EffectDeps' # EffectDeps
                 THEN ListenerEffect(listeners, isDragging' \/ isResizing')
                 ELSE listeners

Listening(type) == \E l \in listeners : l.type = type

\* the calls a handler makes outside the state of its component, in their
\* order: onSaveChart (line 28, charts), and the others: onBackToCharts
\* (line 27, part_001:13), allRanges.find (part_001:43), alert (part_001:49)
Emits(charts, others) ==
  /\ saved' = charts
  /\ effects' = others

\* a handler of the editor that calls no callback; the viewer is another
\* component, and the chart prop is the parent's
EditorStep ==
  /\ Emits(<< >>, << >>)
  /\ UNCHANGED <<props, viewer>>

-----------------------------------------------------------------------------
(* 4.2 Interaction state machine *)

\* the five session states as one value, and their assignment
Session ==
  [activeButtonId |-> activeButtonId, isDragging |-> isDragging,
   isResizing |-> isResizing, dragOffset |-> dragOffset,
   resizeDirection |-> resizeDirection]

SetSession(s) ==
  /\ activeButtonId' = s.activeButtonId
  /\ isDragging' = s.isDragging
  /\ isResizing' = s.isResizing
  /\ dragOffset' = s.dragOffset
  /\ resizeDirection' = s.resizeDirection

IdleSession ==
  [activeButtonId |-> NoId, isDragging |-> FALSE, isResizing |-> FALSE,
   dragOffset |-> [x |-> 0, y |-> 0], resizeDirection |-> NoDirection]

\* handleMouseDown without the early return of lines 122-124
handleMouseDown_IgnoresIcon(s, button, onSettingsIcon, x, y) ==
  LET direction == getResizeDirection(x, y, button.width, button.height)
  IN  [activeButtonId |-> button.id,
       isResizing |-> IF direction # NoDirection THEN TRUE ELSE s.isResizing,
       resizeDirection |->
         IF direction # NoDirection THEN direction ELSE s.resizeDirection,
       isDragging |-> IF direction # NoDirection THEN s.isDragging ELSE TRUE,
       dragOffset |-> [x |-> x, y |-> y]]

\* handleMouseDown (lines 120-142): the session it leaves, s being the one it
\* finds; x, y are e.clientX - rect.left and e.clientY - rect.top, rect being
\* the pressed button's own box
handleMouseDown(s, button, onSettingsIcon, x, y) ==
  IF onSettingsIcon
    THEN s
    ELSE LET direction == getResizeDirection(x, y, button.width, button.height)
         IN  [activeButtonId |-> button.id,
              isResizing |-> IF direction # NoDirection THEN TRUE ELSE s.isResizing,
              resizeDirection |->
                IF direction # NoDirection THEN direction ELSE s.resizeDirection,
              isDragging |-> IF direction # NoDirection THEN s.isDragging ELSE TRUE,
              dragOffset |-> [x |-> x, y |-> y]]

\* handleTouchStart without the classifier of lines 150-157: every press on
\* the body starts a drag
handleTouchStart_AlwaysDrags(s, button, onSettingsIcon, x, y) ==
  IF onSettingsIcon
    THEN s
    ELSE [activeButtonId |-> button.id,
          isResizing |-> s.isResizing,
          resizeDirection |-> s.resizeDirection,
          isDragging |-> TRUE,
          dragOffset |-> [x |-> x, y |-> y]]

\* handleTouchStart (lines 144-165); x, y are those of e.touches[0]
handleTouchStart(s, button, onSettingsIcon, x, y) ==
  IF onSettingsIcon
    THEN s
    ELSE LET direction == getResizeDirection(x, y, button.width, button.height)
         IN  [activeButtonId |-> button.id,
              isResizing |-> IF direction # NoDirection THEN TRUE ELSE s.isResizing,
              resizeDirection |->
                IF direction # NoDirection THEN direction ELSE s.resizeDirection,
              isDragging |-> IF direction # NoDirection THEN s.isDragging ELSE TRUE,
              dragOffset |-> [x |-> x, y |-> y]]

\* the canvas behind the modal dialog takes no press (Dialog, line 567)
CanPress(i) ==
  /\ mounted
  /\ ~isButtonModalOpen
  /\ i \in DOMAIN buttons

\* a press lands on the body of a button that has an area
HasBody(b) == b.width > 0 /\ b.height > 0

\* the canvas clips what lies outside it (overflow-hidden, line 497): a point
\* of a button takes a press only where the canvas shows it
Shown(b, p) ==
  \E w \in RenderedSizes(canvasWidth), h \in RenderedSizes(canvasHeight) :
    /\ 0 <= b.x + p[1] /\ b.x + p[1] < w
    /\ 0 <= b.y + p[2] /\ b.y + p[2] < h

\* where a press lands, relative to the button's box: on the settings icon
\* (absolute top-1 right-1 h-6 w-6, line 525) or on one of the body's zones
PressPoints(b, onSettingsIcon) ==
  {p \in IF onSettingsIcon
           THEN {<<b.width - 16, 16>>}
           ELSE {<<x, y>> : x \in LocalCoords(b.width), y \in LocalCoords(b.height)} :
     Shown(b, p)}

MouseDown ==
  \E i \in DOMAIN buttons, onSettingsIcon \in BOOLEAN :
    /\ CanPress(i)
    /\ onSettingsIcon \/ HasBody(buttons[i])
    /\ \E p \in PressPoints(buttons[i], onSettingsIcon) :
         SetSession(handleMouseDown(Session, buttons[i], onSettingsIcon, p[1], p[2]))
    /\ lastEvent' = IF onSettingsIcon THEN "press on settings" ELSE "press"
    /\ UNCHANGED <<buttons, canvas, dialog, world, moves>>
    /\ Render
    /\ EditorStep

TouchStart ==
  \E i \in DOMAIN buttons, onSettingsIcon \in BOOLEAN :
    /\ CanPress(i)
    /\ onSettingsIcon \/ HasBody(buttons[i])
    /\ \E p \in PressPoints(buttons[i], onSettingsIcon) :
         SetSession(handleTouchStart(Session, buttons[i], onSettingsIcon, p[1], p[2]))
    /\ lastEvent' = IF onSettingsIcon THEN "press on settings" ELSE "press"
    /\ UNCHANGED <<buttons, canvas, dialog, world, moves>>
    /\ Render
    /\ EditorStep

\* handleMouseMove with the find of line 172 falling back to the first button
\* of the collection when no button has the target's id
handleMouseMove_FallsBackToFirst(clientX, clientY, canvasRect) ==
  IF activeButtonId = NoId \/ buttons = << >>
    THEN buttons
    ELSE LET currentButton == IF HasButton(activeButtonId)
                                THEN FindButton(activeButtonId) ELSE buttons[1]
         IN  IF isDragging
               THEN WithPosition(currentButton.id,
                      MouseDragGeometry(currentButton, clientX, clientY, canvasRect))
               ELSE IF isResizing /\ resizeDirection # NoDirection
                 THEN WithGeometry(currentButton.id,
                        MouseResizeGeometry(currentButton, resizeDirection,
                                            clientX, clientY, canvasRect))
                 ELSE buttons

\* handleMouseMove (lines 167-251): the button collection it leaves
handleMouseMove(clientX, clientY, canvasRect) ==
  IF activeButtonId = NoId \/ ~HasButton(activeButtonId)
    THEN buttons
    ELSE LET currentButton == FindButton(activeButtonId)
         IN  IF isDragging
               THEN WithPosition(activeButtonId,
                      MouseDragGeometry(currentButton, clientX, clientY, canvasRect))
               ELSE IF isResizing /\ resizeDirection # NoDirection
                 THEN WithGeometry(activeButtonId,
                        MouseResizeGeometry(currentButton, resizeDirection,
                                            clientX, clientY, canvasRect))
                 ELSE buttons

\* handleTouchMove without its resize branch (lines 273-339)
handleTouchMove_DragsOnly(clientX, clientY, canvasRect) ==
  IF activeButtonId = NoId \/ ~HasButton(activeButtonId)
    THEN buttons
    ELSE IF isDragging
      THEN WithPosition(activeButtonId,
             TouchDragGeometry(FindButton(activeButtonId), clientX, clientY,
                               canvasRect))
      ELSE buttons

\* handleTouchMove (lines 253-341); clientX, clientY are those of e.touches[0]
handleTouchMove(clientX, clientY, canvasRect) ==
  IF activeButtonId = NoId \/ ~HasButton(activeButtonId)
    THEN buttons
    ELSE LET currentButton == FindButton(activeButtonId)
         IN  IF isDragging
               THEN WithPosition(activeButtonId,
                      TouchDragGeometry(currentButton, clientX, clientY, canvasRect))
               ELSE IF isResizing /\ resizeDirection # NoDirection
                 THEN WithGeometry(activeButtonId,
                        TouchResizeGeometry(currentButton, resizeDirection,
                                            clientX, clientY, canvasRect))
                 ELSE buttons

\* canvasRef.current.getBoundingClientRect() at the time of an event
CanvasRects(left, top) ==
  {[left |-> left, top |-> top, width |-> w, height |-> h] :
     w \in RenderedSizes(canvasWidth), h \in RenderedSizes(canvasHeight)}

MouseMoveStep(events) ==
  /\ mounted
  /\ Listening("mousemove")
  /\ \E p \in events : \E canvasRect \in CanvasRects(p[3], p[4]) :
       /\ buttons' = handleMouseMove(p[1], p[2], canvasRect)
       /\ pointer' = p
  /\ lastEvent' = "move"
  /\ UNCHANGED <<session, canvas, dialog, mounted, allRanges, now>>
  /\ Render
  /\ EditorStep

TouchMoveStep(events) ==
  /\ mounted
  /\ Listening("touchmove")
  /\ \E p \in events : \E canvasRect \in CanvasRects(p[3], p[4]) :
       /\ buttons' = handleTouchMove(p[1], p[2], canvasRect)
       /\ pointer' = p
  /\ lastEvent' = "move"
  /\ UNCHANGED <<session, canvas, dialog, mounted, allRanges, now>>
  /\ Render
  /\ EditorStep

MouseMove == MouseMoveStep(PointerEvents) /\ UNCHANGED moves
TouchMove == TouchMoveStep(PointerEvents) /\ UNCHANGED moves

\* handleMouseUp without line 347: the direction of the ended resize stays
handleMouseUp_KeepsDirection(s) ==
  [s EXCEPT !.isDragging = FALSE, !.isResizing = FALSE,
            !.activeButtonId = NoId]

\* handleMouseUp (lines 343-348), the listener of mouseup and of touchend
handleMouseUp(s) ==
  [s EXCEPT !.isDragging = FALSE, !.isResizing = FALSE,
            !.activeButtonId = NoId, !.resizeDirection = NoDirection]

MouseUp ==
  /\ mounted
  /\ Listening("mouseup")
  /\ SetSession(handleMouseUp(Session))
  /\ lastEvent' = "release"
  /\ UNCHANGED <<buttons, canvas, dialog, world, moves>>
  /\ Render
  /\ EditorStep

TouchEnd ==
  /\ mounted
  /\ Listening("touchend")
  /\ SetSession(handleMouseUp(Session))
  /\ lastEvent' = "release"
  /\ UNCHANGED <<buttons, canvas, dialog, world, moves>>
  /\ Render
  /\ EditorStep

\* a touchcancel of the gesture's touch reaches the window; a handler runs
\* only if the effect registered one for it (lines 369-372)
TouchCancel ==
  /\ mounted
  /\ isDragging \/ isResizing
  /\ SetSession(IF Listening("touchcancel") THEN handleMouseUp(Session) ELSE Session)
  /\ lastEvent' = "cancel"
  /\ UNCHANGED <<buttons, canvas, dialog, world, moves>>
  /\ Render
  /\ EditorStep

\* the parent unmounts the editor: the last cleanup runs (lines 380-385)
Unmount ==
  /\ mounted
  /\ mounted' = FALSE
  /\ listeners' = EffectCleanup(listeners)
  /\ lastEvent' = "unmount"
  /\ UNCHANGED <<buttons, canvas, dialog, session, allRanges, now, pointer,
                 moves>>
  /\ EditorStep

-----------------------------------------------------------------------------
(* Buttons: Add and the property dialog *)

\* the newButton with the defaults of lines 63 and 68 not looking at the
\* ranges: always a label
NewButton_AlwaysLabel(ranges, time) ==
  [id |-> time,
   name |-> "new",
   linkedItem |-> "label-only",
   x |-> 50, y |-> 50, width |-> 120, height |-> 40,
   type |-> "label"]

\* the newButton of handleAddButton (lines 59-69)
NewButton(ranges, time) ==
  [id |-> time,
   name |-> "new",
   linkedItem |-> IF Len(ranges) > 0 THEN ranges[1] ELSE "label-only",
   x |-> 50, y |-> 50, width |-> 120, height |-> 40,
   type |-> IF Len(ranges) > 0 THEN "normal" ELSE "label"]

\* handleAddButton (lines 58-73)
handleAddButton ==
  LET newButton == NewButton(allRanges, now)
  IN  /\ buttons' = Append(buttons, newButton)
      /\ editingButton' = newButton
      /\ isButtonModalOpen' = TRUE

AddButton ==
  /\ mounted
  /\ ~isButtonModalOpen
  /\ Len(buttons) < MaxButtons
  /\ handleAddButton
  /\ lastEvent' = "add"
  /\ UNCHANGED <<session, canvas, world, moves>>
  /\ Render
  /\ EditorStep

\* handleSettingsClick (lines 75-79)
handleSettingsClick(button) ==
  /\ editingButton' = button
  /\ isButtonModalOpen' = TRUE

SettingsClick ==
  \E i \in DOMAIN buttons :
    /\ CanPress(i)
    /\ handleSettingsClick(buttons[i])
    /\ lastEvent' = "settings click"
    /\ UNCHANGED <<buttons, session, canvas, world, moves>>
    /\ Render
    /\ EditorStep

\* parseInt(e.target.value) || 0 of the width and height fields (642, 654);
\* parsed is what parseInt returns
ParseSize(parsed) == IF parsed = NaN THEN 0 ELSE parsed

\* the onChange of the width field (line 642) and of the height field (654)
EditSize ==
  /\ mounted
  /\ isButtonModalOpen
  /\ editingButton # NoButton
  /\ \E v \in SizeInputs :
       \/ editingButton' = [editingButton EXCEPT !.width = ParseSize(v)]
       \/ editingButton' = [editingButton EXCEPT !.height = ParseSize(v)]
  /\ lastEvent' = "size change"
  /\ UNCHANGED <<buttons, isButtonModalOpen, session, canvas, world, moves>>
  /\ Render
  /\ EditorStep

\* prev.map(btn => btn.id === draft.id ? draft : btn) (lines 83-85)
ReplaceById(bs, draft) ==
  [i \in DOMAIN bs |-> IF bs[i].id = draft.id THEN draft ELSE bs[i]]

\* handleSaveButtonProperties (lines 81-89)
handleSaveButtonProperties ==
  IF editingButton # NoButton
    THEN /\ buttons' = ReplaceById(buttons, editingButton)
         /\ isButtonModalOpen' = FALSE
         /\ editingButton' = NoButton
    ELSE UNCHANGED <<buttons, dialog>>

SaveButtonProperties ==
  /\ mounted
  /\ isButtonModalOpen
  /\ handleSaveButtonProperties
  /\ lastEvent' = "save"
  /\ UNCHANGED <<session, canvas, world, moves>>
  /\ Render
  /\ EditorStep

\* handleCancelButtonProperties (lines 91-97)
handleCancelButtonProperties ==
  /\ IF editingButton # NoButton /\ ~HasButton(editingButton.id)
       THEN buttons' = SelectSeq(buttons, LAMBDA b : b.id # editingButton.id)
       ELSE UNCHANGED buttons
  /\ isButtonModalOpen' = FALSE
  /\ editingButton' = NoButton

CancelButtonProperties ==
  /\ mounted
  /\ isButtonModalOpen
  /\ handleCancelButtonProperties
  /\ lastEvent' = "cancel dialog"
  /\ UNCHANGED <<session, canvas, world, moves>>
  /\ Render
  /\ EditorStep

\* onOpenChange={setIsButtonModalOpen} (line 567): Escape or a click outside
DismissDialog ==
  /\ mounted
  /\ isButtonModalOpen
  /\ isButtonModalOpen' = FALSE
  /\ lastEvent' = "dismiss"
  /\ UNCHANGED <<buttons, editingButton, session, canvas, world, moves>>
  /\ Render
  /\ EditorStep

-----------------------------------------------------------------------------
(* Canvas dimensions *)

\* handleDimensionChange (lines 402-408): setter(parseInt(value, 10)); parsed
\* is what parseInt returns for the field's text
handleDimensionChange(parsed) == parsed

\* handleDimensionBlur (lines 410-418)
handleDimensionBlur(currentValue) ==
  IF currentValue = NaN \/ currentValue < minCanvasSize
    THEN minCanvasSize ELSE currentValue

DimensionChange ==
  /\ mounted
  /\ ~isButtonModalOpen
  /\ \E v \in DimensionInputs :
       \/ /\ canvasWidth' = handleDimensionChange(v)
          /\ UNCHANGED canvasHeight
       \/ /\ canvasHeight' = handleDimensionChange(v)
          /\ UNCHANGED canvasWidth
  /\ lastEvent' = "dimension change"
  /\ UNCHANGED <<buttons, session, dialog, world, moves>>
  /\ Render
  /\ EditorStep

DimensionBlur ==
  /\ mounted
  /\ \/ /\ canvasWidth' = handleDimensionBlur(canvasWidth)
        /\ UNCHANGED canvasHeight
     \/ /\ canvasHeight' = handleDimensionBlur(canvasHeight)
        /\ UNCHANGED canvasWidth
  /\ canvas' # canvas
  /\ lastEvent' = "dimension blur"
  /\ UNCHANGED <<buttons, session, dialog, world, moves>>
  /\ Render
  /\ EditorStep

\* handleMaximizeCanvas fitting the buttons into the canvas it sets
handleMaximizeCanvas_FitsButtons(clientWidth, availableHeight) ==
  /\ canvasWidth' = clientWidth
  /\ canvasHeight' = IF availableHeight > 100 THEN availableHeight ELSE 100
  /\ buttons' = [i \in DOMAIN buttons |->
                  [buttons[i] EXCEPT
                     !.x = Max(0, Min(@, clientWidth - buttons[i].width))]]

\* handleMaximizeCanvas (lines 430-447): its setters are setCanvasWidth and
\* setCanvasHeight (444, 446)
handleMaximizeCanvas(clientWidth, availableHeight) ==
  /\ canvasWidth' = clientWidth
  /\ canvasHeight' = IF availableHeight > 100 THEN availableHeight ELSE 100
  /\ UNCHANGED buttons

MaximizeCanvas ==
  /\ mounted
  /\ ~isButtonModalOpen
  /\ \E w \in ParentWidths, h \in AvailableHeights : handleMaximizeCanvas(w, h)
  /\ lastEvent' = "maximize"
  /\ UNCHANGED <<session, dialog, world, moves>>
  /\ Render
  /\ EditorStep

-----------------------------------------------------------------------------
(* Commit *)

\* the updatedChart of handleBackButtonClick being the chart prop as given
handleBackButtonClick_SavesProp == chart

\* the updatedChart of handleBackButtonClick (lines 391-397)
handleBackButtonClick ==
  [chart EXCEPT !.name = chartName, !.buttons = buttons,
                !.canvasWidth = canvasWidth, !.canvasHeight = canvasHeight]

\* the click on the back button (line 548): onSaveChart(updatedChart), then
\* onBackToCharts() (lines 398-399); the dialog is modal
BackButtonClick ==
  /\ mounted
  /\ ~isButtonModalOpen
  /\ Emits(<<handleBackButtonClick>>, <<"back to charts">>)
  /\ lastEvent' = "back"
  /\ UNCHANGED <<buttons, session, canvas, dialog, world, moves, props, viewer>>
  /\ Render

-----------------------------------------------------------------------------
(* The environment *)

\* the clock Date.now() reads
Tick ==
  /\ mounted
  /\ now < MaxClock
  /\ now' = now + 1
  /\ lastEvent' = "tick"
  /\ UNCHANGED <<buttons, session, dialog, canvas, listeners, mounted, allRanges,
                 pointer, moves>>
  /\ EditorStep

\* a button of a chart stored by an earlier editing session
StoredButton(id, x, y, width, height) ==
  [id |-> id, name |-> "stored", linkedItem |-> "R1",
   x |-> x, y |-> y, width |-> width, height |-> height, type |-> "normal"]

\* the charts the editor is opened on (the chart prop, lines 26, 35-38), each
\* with the range registry the context supplies (line 32)
StoredCharts ==
  {[id |-> "c1", name |-> "empty",
    buttons |-> << >>, canvasWidth |-> 0, canvasHeight |-> 0,
    ranges |-> << >>],
   [id |-> "c2", name |-> "stored",
    buttons |-> <<StoredButton(1, 100, 100, 100, 100)>>,
    canvasWidth |-> 800, canvasHeight |-> 500, ranges |-> <<"R1", "R2">>]}

\* the StoredChart the parent passes as the chart prop (Chart.tsx, 29-35)
Prop(c) ==
  [id |-> c.id, name |-> c.name, buttons |-> c.buttons,
   canvasWidth |-> c.canvasWidth, canvasHeight |-> c.canvasHeight]

\* null of displayedRange
NoRange == "null"

\* no viewer is mounted next to the editor
ViewerAbsent ==
  /\ viewerMounted = FALSE
  /\ isMobileMode = FALSE
  /\ displayedRange = NoRange
  /\ showMatrixView = FALSE
  /\ viewportSize = [width |-> 0, height |-> 0]
  /\ activated = NoButton

\* chart.canvasWidth || 800 (line 37), chart.canvasHeight || 500 (line 38)
OrDefault(v, default) == IF v = 0 \/ v = NaN THEN default ELSE v

\* the state after construction on a chart (lines 35-48)
Mounted(c) ==
  /\ chart = Prop(c)
  /\ chartName = c.name
  /\ buttons = c.buttons
  /\ canvasWidth = OrDefault(c.canvasWidth, defaultCanvasWidth)
  /\ canvasHeight = OrDefault(c.canvasHeight, defaultCanvasHeight)
  /\ isButtonModalOpen = FALSE
  /\ editingButton = NoButton
  /\ activeButtonId = IdleSession.activeButtonId
  /\ isDragging = IdleSession.isDragging
  /\ isResizing = IdleSession.isResizing
  /\ dragOffset = IdleSession.dragOffset
  /\ resizeDirection = IdleSession.resizeDirection
  /\ listeners = {}
  /\ mounted = TRUE
  /\ allRanges = c.ranges
  /\ now = 2
  /\ lastEvent = "mount"
  /\ pointer = <<0, 0, 0, 0>>
  /\ moves = 0
  /\ saved = << >>
  /\ effects = << >>
  /\ ViewerAbsent

-----------------------------------------------------------------------------
(* The viewer: ChartViewer (src/unnamed/part_001)                            *)

\* a button of a chart that is played: its link and its role
ViewedButton(id, linkedItem, type) ==
  [id |-> id, name |-> "stored", linkedItem |-> linkedItem,
   x |-> 100, y |-> 100, width |-> 100, height |-> 100, type |-> type]

\* the charts the viewer is opened on, with the ranges it is given then
ViewedCharts ==
  {[id |-> "c1", name |-> "empty", buttons |-> << >>,
    canvasWidth |-> 0, canvasHeight |-> 0, ranges |-> <<"R1", "R2">>],
   [id |-> "c3", name |-> "roles",
    buttons |-> <<ViewedButton(1, "R1", "normal"), ViewedButton(2, "R2", "normal"),
                  ViewedButton(3, "label-only", "label"),
                  ViewedButton(4, "R1", "exit")>>,
    canvasWidth |-> 800, canvasHeight |-> 500, ranges |-> <<"R1", "R2">>],
   [id |-> "c3", name |-> "roles",
    buttons |-> <<ViewedButton(1, "R1", "normal"), ViewedButton(2, "R2", "normal"),
                  ViewedButton(3, "label-only", "label"),
                  ViewedButton(4, "R1", "exit")>>,
    canvasWidth |-> 800, canvasHeight |-> 500, ranges |-> <<"R2">>]}

\* the allRanges prop after the range registry changed
RangeLists == {<< >>, <<"R2">>, <<"R1", "R2">>}

\* window.innerWidth and innerHeight (part_001:25)
WindowSizes == {[width |-> 390, height |-> 844], [width |-> 844, height |-> 390]}

\* allRanges.find(range => range.id === id) (part_001:43); a range stands
\* for its id
FindRange(ranges, id) ==
  IF \E i \in DOMAIN ranges : ranges[i] = id THEN id ELSE NoRange

\* handleButtonClick looking the range up before it looks at the role
handleButtonClick_LooksUpFirst(button) ==
  LET linkedRange == FindRange(allRanges, button.linkedItem)
  IN  IF button.type = "exit"
        THEN /\ Emits(<< >>, <<"find", "back to charts">>)
             /\ UNCHANGED <<displayedRange, showMatrixView>>
        ELSE IF button.type = "label"
          THEN /\ Emits(<< >>, <<"find">>)
               /\ UNCHANGED <<displayedRange, showMatrixView>>
          ELSE IF linkedRange # NoRange
            THEN /\ displayedRange' = linkedRange
                 /\ showMatrixView' = TRUE
                 /\ Emits(<< >>, <<"find">>)
            ELSE /\ displayedRange' = NoRange
                 /\ UNCHANGED showMatrixView
                 /\ Emits(<< >>, <<"find", "alert">>)

\* handleButtonClick without the alert of part_001:49
handleButtonClick_SilentWhenMissing(button) ==
  IF button.type = "exit"
    THEN /\ Emits(<< >>, <<"back to charts">>)
         /\ UNCHANGED <<displayedRange, showMatrixView>>
    ELSE IF button.type = "label"
      THEN /\ Emits(<< >>, << >>)
           /\ UNCHANGED <<displayedRange, showMatrixView>>
      ELSE LET linkedRange == FindRange(allRanges, button.linkedItem)
           IN  IF linkedRange # NoRange
                 THEN /\ displayedRange' = linkedRange
                      /\ showMatrixView' = TRUE
                      /\ Emits(<< >>, <<"find">>)
                 ELSE /\ displayedRange' = NoRange
                      /\ UNCHANGED showMatrixView
                      /\ Emits(<< >>, <<"find">>)

\* handleButtonClick switching to the matrix view whatever the find returns
handleButtonClick_AlwaysShowsMatrix(button) ==
  IF button.type = "exit"
    THEN /\ Emits(<< >>, <<"back to charts">>)
         /\ UNCHANGED <<displayedRange, showMatrixView>>
    ELSE IF button.type = "label"
      THEN /\ Emits(<< >>, << >>)
           /\ UNCHANGED <<displayedRange, showMatrixView>>
      ELSE LET linkedRange == FindRange(allRanges, button.linkedItem)
           IN  /\ displayedRange' = linkedRange
               /\ showMatrixView' = TRUE
               /\ Emits(<< >>, IF linkedRange # NoRange
                                 THEN <<"find">> ELSE <<"find", "alert">>)

\* handleButtonClick (part_001:33-51)
handleButtonClick(button) ==
  IF button.type = "exit"
    THEN /\ Emits(<< >>, <<"back to charts">>)
         /\ UNCHANGED <<displayedRange, showMatrixView>>
    ELSE IF button.type = "label"
      THEN /\ Emits(<< >>, << >>)
           /\ UNCHANGED <<displayedRange, showMatrixView>>
      ELSE LET linkedRange == FindRange(allRanges, button.linkedItem)
           IN  IF linkedRange # NoRange
                 THEN /\ displayedRange' = linkedRange
                      /\ showMatrixView' = TRUE
                      /\ Emits(<< >>, <<"find">>)
                 ELSE /\ displayedRange' = NoRange
                      /\ UNCHANGED showMatrixView
                      /\ Emits(<< >>, <<"find", "alert">>)

\* the onClick of a rendered button (part_001:106); the buttons are rendered
\* while the matrix view is not shown (part_001:89-91)
ButtonClick ==
  \E i \in DOMAIN chart.buttons :
    /\ viewerMounted
    /\ ~showMatrixView
    /\ handleButtonClick(chart.buttons[i])
    /\ activated' = chart.buttons[i]
    /\ lastEvent' = "activate"
    /\ UNCHANGED <<chart, allRanges, editor, viewerMounted, isMobileMode,
                   viewportSize>>

\* handleBackToButtons (part_001:53-56), the onClick of the button rendered
\* while the matrix view is shown (part_001:133-138)
handleBackToButtons ==
  /\ displayedRange' = NoRange
  /\ showMatrixView' = FALSE

BackToButtons ==
  /\ viewerMounted
  /\ showMatrixView
  /\ handleBackToButtons
  /\ Emits(<< >>, << >>)
  /\ lastEvent' = "back to buttons"
  /\ UNCHANGED <<chart, allRanges, editor, viewerMounted, isMobileMode,
                 viewportSize, activated>>

\* handleResize (part_001:24-26), registered in mobile mode (part_001:23, 28)
handleResize ==
  /\ viewerMounted
  /\ isMobileMode
  /\ \E size \in WindowSizes \ {viewportSize} : viewportSize' = size
  /\ Emits(<< >>, << >>)
  /\ lastEvent' = "resize"
  /\ UNCHANGED <<chart, allRanges, editor, viewerMounted, isMobileMode,
                 displayedRange, showMatrixView, activated>>

\* the parent passes another allRanges (part_001:12): no state follows it
RangesChange ==
  /\ viewerMounted
  /\ \E ranges \in RangeLists \ {allRanges} : allRanges' = ranges
  /\ Emits(<< >>, << >>)
  /\ lastEvent' = "ranges change"
  /\ UNCHANGED <<chart, editor, viewer>>

\* the parent unmounts the viewer
ViewerUnmount ==
  /\ viewerMounted
  /\ viewerMounted' = FALSE
  /\ Emits(<< >>, << >>)
  /\ lastEvent' = "viewer unmount"
  /\ UNCHANGED <<chart, allRanges, editor, isMobileMode, displayedRange,
                 showMatrixView, viewportSize, activated>>

\* no editor is mounted next to the viewer
EditorAbsent ==
  /\ chartName = chart.name
  /\ buttons = << >>
  /\ canvasWidth = defaultCanvasWidth
  /\ canvasHeight = defaultCanvasHeight
  /\ isButtonModalOpen = FALSE
  /\ editingButton = NoButton
  /\ activeButtonId = IdleSession.activeButtonId
  /\ isDragging = IdleSession.isDragging
  /\ isResizing = IdleSession.isResizing
  /\ dragOffset = IdleSession.dragOffset
  /\ resizeDirection = IdleSession.resizeDirection
  /\ listeners = {}
  /\ mounted = FALSE
  /\ now = 2
  /\ pointer = <<0, 0, 0, 0>>
  /\ moves = 0

\* the viewer after construction on a chart (part_001:16-31); in mobile mode
\* the effect has read the window once (part_001:27)
InitViewer ==
  \E c \in ViewedCharts :
    /\ chart = Prop(c)
    /\ allRanges = c.ranges
    /\ EditorAbsent
    /\ viewerMounted = TRUE
    /\ isMobileMode \in BOOLEAN
    /\ displayedRange = NoRange
    /\ showMatrixView = FALSE
    /\ IF isMobileMode
         THEN viewportSize \in WindowSizes
         ELSE viewportSize = [width |-> 0, height |-> 0]
    /\ activated = NoButton
    /\ saved = << >>
    /\ effects = << >>
    /\ lastEvent = "mount"

NextViewer ==
  \/ ButtonClick
  \/ BackToButtons
  \/ handleResize
  \/ RangesChange
  \/ ViewerUnmount

SpecViewer == InitViewer /\ [][NextViewer]_vars

-----------------------------------------------------------------------------
(* Spec: the gesture machine.  A gesture starts on a chart as it was stored  *)
(* or as the editing handlers above leave it; each chart below names the    *)
(* handlers that produce it from a stored chart.                             *)

EmptyChart == CHOOSE c \in StoredCharts : Len(c.buttons) = 0
OneButtonChart == CHOOSE c \in StoredCharts : Len(c.buttons) = 1

EditedCharts ==
  {\* handleAddButton on the empty chart, then Save
   [EmptyChart EXCEPT !.buttons = <<NewButton(EmptyChart.ranges, 2)>>],
   \* the dialog's width field set to 900, then Save
   [OneButtonChart EXCEPT !.buttons[1].width = ParseSize(900)],
   \* handleAddButton on the stored chart, then Save, then
   \* handleDimensionChange of both fields: the canvas shrinks, the added
   \* button is left wider than it and the stored one outside it
   [OneButtonChart EXCEPT
      !.buttons = Append(@, NewButton(OneButtonChart.ranges, 2)),
      !.canvasWidth = handleDimensionChange(100),
      !.canvasHeight = handleDimensionChange(100)]}

Init == \E c \in StoredCharts \cup EditedCharts : Mounted(c)

Next ==
  \/ MouseDown
  \/ TouchStart
  \/ MouseMove
  \/ TouchMove
  \/ MouseUp
  \/ TouchEnd
  \/ TouchCancel
  \/ Unmount

Spec == Init /\ [][Next]_vars

-----------------------------------------------------------------------------
(* SpecMove: the geometry of move events.  A session is drawn as a press     *)
(* (or a press followed by a second press) leaves it on one button, the     *)
(* button and the canvas are drawn from the shapes the editor can produce,  *)
(* and MaxMoves move events follow.                                          *)

\* <<x, y, width, height>> of the pressed button: as stored, as added, on a
\* canvas that shrank under it, as the dialog's size fields leave it, as
\* added and then dragged to the bottom edge of the default canvas
MoveBoxes ==
  {<<100, 100, 100, 100>>, <<50, 50, 120, 40>>, <<770, 480, 50, 50>>,
   <<10, 10, 100, 100>>, <<0, 0, 900, 600>>, <<700, 450, 100, 50>>,
   <<100, 100, 30, 30>>, <<50, 460, 120, 40>>}

\* <<canvasWidth, canvasHeight>>
MoveCanvases == {<<800, 500>>, <<100, 100>>, <<NaN, 500>>}

\* the sessions a press from Idle starts on b, and those a second press
\* leaves when it arrives during a drag
MoveSessions(b) ==
  LET first == {handleMouseDown(IdleSession, b, FALSE, p[1], p[2]) :
                  p \in PressPoints(b, FALSE)}
      second == {handleTouchStart(s, b, FALSE, p[1], p[2]) :
                   s \in {f \in first : f.isDragging},
                   p \in PressPoints(b, FALSE) \cup {q \in {<<0, 0>>} : Shown(b, q)}}
  IN  first \cup second

InitMove ==
  \E box \in MoveBoxes, cv \in MoveCanvases :
    LET b == StoredButton(1, box[1], box[2], box[3], box[4])
    IN  /\ chart = [Prop(OneButtonChart) EXCEPT !.buttons = <<b>>,
                                                !.canvasWidth = cv[1],
                                                !.canvasHeight = cv[2]]
        /\ chartName = OneButtonChart.name
        /\ buttons = <<b>>
        /\ canvasWidth = cv[1]
        /\ canvasHeight = cv[2]
        /\ isButtonModalOpen = FALSE
        /\ editingButton = NoButton
        /\ \E s \in MoveSessions(b) :
             /\ activeButtonId = s.activeButtonId
             /\ isDragging = s.isDragging
             /\ isResizing = s.isResizing
             /\ dragOffset = s.dragOffset
             /\ resizeDirection = s.resizeDirection
        /\ listeners = ListenerEffect({}, TRUE)
        /\ mounted = TRUE
        /\ allRanges = <<"R1", "R2">>
        /\ now = 2
        /\ lastEvent = "press"
        /\ pointer = <<0, 0, 0, 0>>
        /\ moves = 0
        /\ saved = << >>
        /\ effects = << >>
        /\ ViewerAbsent

CountedMouseMove ==
  /\ moves < MaxMoves
  /\ moves' = moves + 1
  /\ MouseMoveStep(MovePointerEvents)

CountedTouchMove ==
  /\ moves < MaxMoves
  /\ moves' = moves + 1
  /\ TouchMoveStep(MovePointerEvents)

NextMove ==
  \/ CountedMouseMove
  \/ CountedTouchMove

SpecMove == InitMove /\ [][NextMove]_vars

-----------------------------------------------------------------------------
(* SpecPress: the press that opens a gesture, at every position of a box.   *)
(* The box is the stored button with the sizes the dialog's fields give it.  *)

PressWidths == {12, 17, 24, 120}
PressHeights == {12, 17, 40}

InitPress ==
  \E w \in PressWidths, h \in PressHeights :
    Mounted([OneButtonChart EXCEPT !.buttons[1].width = w,
                                   !.buttons[1].height = h])

\* every position of the box of b, relative to its top left corner
BoxPoints(b) == {p \in (0..b.width) \X (0..b.height) : Shown(b, p)}

FirstMouseDown ==
  \E i \in DOMAIN buttons :
    /\ CanPress(i)
    /\ ~isDragging /\ ~isResizing
    /\ \E p \in BoxPoints(buttons[i]) :
         SetSession(handleMouseDown(Session, buttons[i], FALSE, p[1], p[2]))
    /\ lastEvent' = "press"
    /\ UNCHANGED <<buttons, canvas, dialog, world, moves>>
    /\ Render
    /\ EditorStep

FirstTouchStart ==
  \E i \in DOMAIN buttons :
    /\ CanPress(i)
    /\ ~isDragging /\ ~isResizing
    /\ \E p \in BoxPoints(buttons[i]) :
         SetSession(handleTouchStart(Session, buttons[i], FALSE, p[1], p[2]))
    /\ lastEvent' = "press"
    /\ UNCHANGED <<buttons, canvas, dialog, world, moves>>
    /\ Render
    /\ EditorStep

NextPress ==
  \/ FirstMouseDown
  \/ FirstTouchStart

SpecPress == InitPress /\ [][NextPress]_vars

-----------------------------------------------------------------------------
(* SpecProp: gestures while the parent hands the editor another chart.  The *)
(* effect of lines 51-55 replaces the buttons and the canvas dimensions and  *)
(* leaves the session as it is.                                              *)

\* the charts the parent passes as the chart prop
PropCharts ==
  {EmptyChart, OneButtonChart,
   [EmptyChart EXCEPT !.buttons = <<NewButton(EmptyChart.ranges, 2)>>]}

\* the effect on [chart] (lines 51-56)
ChartPropChange ==
  /\ mounted
  /\ \E c \in PropCharts :
       /\ chart' = Prop(c)
       /\ chartName' = c.name
       /\ buttons' = c.buttons
       /\ canvasWidth' = OrDefault(c.canvasWidth, defaultCanvasWidth)
       /\ canvasHeight' = OrDefault(c.canvasHeight, defaultCanvasHeight)
  /\ lastEvent' = "chart change"
  /\ UNCHANGED <<session, dialog, world, moves, viewer>>
  /\ Emits(<< >>, << >>)
  /\ Render

InitProp == Mounted(OneButtonChart)

NextProp ==
  \/ MouseDown
  \/ TouchStart
  \/ MouseMove
  \/ TouchMove
  \/ MouseUp
  \/ TouchEnd
  \/ ChartPropChange

SpecProp == InitProp /\ [][NextProp]_vars

-----------------------------------------------------------------------------
(* SpecEditor: Add button and the property dialog, between gestures.        *)
(* SpecCanvas: the canvas dimension fields and Maximize.  Every chart of     *)
(* EditedCharts is what the handlers of the two leave of a stored chart.     *)

InitEditor == \E c \in StoredCharts : Mounted(c)

NextEditor ==
  \/ AddButton
  \/ SettingsClick
  \/ EditSize
  \/ SaveButtonProperties
  \/ CancelButtonProperties
  \/ DismissDialog
  \/ Tick
  \/ Unmount

SpecEditor == InitEditor /\ [][NextEditor]_vars

NextCanvas ==
  \/ DimensionChange
  \/ DimensionBlur
  \/ MaximizeCanvas
  \/ BackButtonClick
  \/ Unmount

SpecCanvas == InitEditor /\ [][NextCanvas]_vars

\* SpecCommit: the gesture machine with the back button
NextCommit ==
  \/ MouseDown
  \/ TouchStart
  \/ MouseMove
  \/ TouchMove
  \/ MouseUp
  \/ TouchEnd
  \/ TouchCancel
  \/ BackButtonClick
  \/ Unmount

SpecCommit == Init /\ [][NextCommit]_vars

\* the chart the editor holds between two gestures
HeldChart ==
  [id |-> chart.id, name |-> chartName,
   buttons |-> buttons, canvasWidth |-> canvasWidth,
   canvasHeight |-> canvasHeight, ranges |-> allRanges]

\* the editor holds chart c as Mounted(c) would start on it
Holds(c) ==
  /\ ~isButtonModalOpen
  /\ HeldChart = [c EXCEPT !.canvasWidth = OrDefault(@, defaultCanvasWidth),
                           !.canvasHeight = OrDefault(@, defaultCanvasHeight)]

-----------------------------------------------------------------------------
(* Properties of move events (checked under SpecMove) *)

\* the canvas is rendered at its state dimensions: both are numbers, no field
\* is in the NaN state an emptied input leaves until its blur
CanvasIsLength ==
  /\ canvasWidth # NaN /\ canvasWidth >= 0
  /\ canvasHeight # NaN /\ canvasHeight >= 0

\* the last event was a move that took the drag branch (line 174)
DragMoved ==
  /\ lastEvent = "move"
  /\ HasButton(activeButtonId)
  /\ isDragging

\* the last event was a move that took the resize branch (line 187)
ResizeMoved ==
  /\ lastEvent = "move"
  /\ HasButton(activeButtonId)
  /\ ~isDragging
  /\ isResizing
  /\ resizeDirection \in Directions

\* C1 as stated: after every move event of a drag session the target button
\* satisfies 0 <= x <= canvasWidth - width and 0 <= y <= canvasHeight - height,
\* whatever button the editor can hold.  Stated for the drag sessions a single
\* press opens, on a canvas rendered at its numeric dimensions.
C1_DragWithinCanvas ==
  (CanvasIsLength /\ DragMoved /\ ~isResizing) =>
    LET b == FindButton(activeButtonId)
    IN  /\ 0 <= b.x /\ b.x <= canvasWidth - b.width
        /\ 0 <= b.y /\ b.y <= canvasHeight - b.height

\* C1 amended: after every move event of a drag session on a canvas rendered
\* at its numeric dimensions, the target button satisfies
\* 0 <= x <= max(0, canvasWidth - width) and 0 <= y <= max(0, canvasHeight -
\* height): inside the canvas when it fits, at the origin of an axis on which
\* it is larger than the canvas.
C1_DragWithinCanvasOrAtOrigin ==
  (CanvasIsLength /\ DragMoved) =>
    LET b == FindButton(activeButtonId)
    IN  /\ 0 <= b.x /\ b.x <= Max(0, canvasWidth - b.width)
        /\ 0 <= b.y /\ b.y <= Max(0, canvasHeight - b.height)

\* a button wider than the canvas has been dragged and sits at x = 0
C1_OversizeButtonDragged ==
  /\ CanvasIsLength
  /\ DragMoved
  /\ FindButton(activeButtonId).width > canvasWidth
  /\ FindButton(activeButtonId).x = 0

SingleSession ==
  /\ HasButton(activeButtonId)
  /\ isDragging # isResizing

\* the target button lies inside the canvas
TargetInsideCanvas ==
  LET b == FindButton(activeButtonId)
  IN  /\ b.x >= 0 /\ b.x + b.width <= canvasWidth
      /\ b.y >= 0 /\ b.y + b.height <= canvasHeight

\* C4: in any active session, a move event that is processed a second time,
\* at the same pointer position and canvas origin, leaves every button's x, y,
\* width and height as the first processing left them.  Stated for the
\* sessions a single press opens on a button inside a canvas rendered at its
\* numeric dimensions.
C4_MoveIdempotent ==
  [][\A p \in MovePointerEvents : \A canvasRect \in CanvasRects(p[3], p[4]) :
       (/\ CanvasIsLength /\ SingleSession /\ TargetInsideCanvas
        /\ lastEvent' = "move") =>
         /\ (buttons' = handleMouseMove(p[1], p[2], canvasRect))
              => (handleMouseMove(p[1], p[2], canvasRect))' = buttons'
         /\ (buttons' = handleTouchMove(p[1], p[2], canvasRect))
              => (handleTouchMove(p[1], p[2], canvasRect))' = buttons']_vars

-----------------------------------------------------------------------------
(* Properties of the gesture machine (checked under Spec) *)

Idle ==
  /\ ~isDragging
  /\ ~isResizing
  /\ activeButtonId = NoId
  /\ resizeDirection = NoDirection

\* C3: when a gesture completes (press, moves, release), its target button
\* has width >= 50 and height >= 50, whatever button the editor can hold.
C3_MinSizeAfterGesture ==
  [][(lastEvent = "move" /\ lastEvent' = "release" /\ HasButton(activeButtonId))
       => LET b == FindButton(activeButtonId)
          IN  b.width >= minSize /\ b.height >= minSize]_vars

\* C5: a release event in Dragging or Resizing returns the machine to Idle and
\* leaves every button's geometry as the last move left it.
C5_ReleaseReturnsToIdle ==
  [][((isDragging \/ isResizing) /\ lastEvent' = "release")
       => (Idle' /\ buttons' = buttons)]_vars

\* a gesture that moved its button to the left edge has been released
C5_ReleasedWhereMoved ==
  /\ lastEvent = "release"
  /\ Idle
  /\ \E i \in DOMAIN buttons : buttons[i].x = 0

\* C6: isDragging and isResizing are never both true.
C6_OneModeAtATime == ~(isDragging /\ isResizing)

\* C7: a touch cancel received during an active session returns the machine
\* to Idle, as a release does.
C7_CancelEndsSession == (lastEvent = "cancel") => Idle

\* C8: window listeners are attached if and only if isDragging or isResizing
\* is true; none stays behind from an earlier run of the effect, and none is
\* registered once the session has ended or the editor is unmounted.
C8_ListenersOnlyWhileActive ==
  /\ mounted => ((listeners # {}) <=> (isDragging \/ isResizing))
  /\ (isDragging \/ isResizing) /\ mounted =>
       \A t \in ListenerTypes : Listening(t)
  /\ \A l \in listeners : ~l.stale
  /\ ~mounted => listeners = {}

\* a session has ended by a release and no listener is registered
C8_DetachedAfterRelease ==
  /\ lastEvent = "release"
  /\ ~isDragging /\ ~isResizing
  /\ listeners = {}

\* C9: a press on a button's settings icon leaves activeButtonId, isDragging,
\* isResizing, resizeDirection and dragOffset unchanged.
C9_SettingsPressKeepsSession ==
  [][(lastEvent' = "press on settings") => UNCHANGED session]_vars

\* the settings icon has been pressed and the machine is Idle
C9_SettingsPressedInIdle ==
  /\ lastEvent = "press on settings"
  /\ Idle

\* C10: a press from Idle on the body of a button enters Resizing with
\* direction d exactly when getResizeDirection returns d for the press
\* position, and Dragging exactly when it returns null; the target is the
\* pressed button.  The press position is the one dragOffset records.
C10_PressFollowsClassifier ==
  [][(Idle /\ lastEvent' = "press")
       => /\ HasButton(activeButtonId')
          /\ LET b == FindButton(activeButtonId')
                 d == getResizeDirection(dragOffset'.x, dragOffset'.y,
                                         b.width, b.height)
             IN  /\ (d \in Directions) <=>
                       (isResizing' /\ ~isDragging' /\ resizeDirection' = d)
                 /\ (d = NoDirection) <=> (isDragging' /\ ~isResizing')]_vars

\* a press on the lower right corner of a button has started a resize
C10_CornerPressStartedResize ==
  /\ lastEvent = "press"
  /\ HasButton(activeButtonId)
  /\ isResizing /\ ~isDragging
  /\ resizeDirection = "se"
  /\ dragOffset.x > FindButton(activeButtonId).width - tolerance
  /\ dragOffset.y > FindButton(activeButtonId).height - tolerance

-----------------------------------------------------------------------------
(* Properties of the classifier (checked under SpecPress) *)

\* the zone of a position in a box by its distance to the four sides: a
\* side's band is the positions less than tolerance away from it
HitZone(x, y, width, height) ==
  LET left == x < tolerance
      right == width - x < tolerance
      top == y < tolerance
      bottom == height - y < tolerance
  IN  CASE top /\ left -> "nw"
        [] top /\ right -> "ne"
        [] bottom /\ left -> "sw"
        [] bottom /\ right -> "se"
        [] left /\ ~top /\ ~bottom -> "w"
        [] right /\ ~top /\ ~bottom -> "e"
        [] top /\ ~left /\ ~right -> "n"
        [] bottom /\ ~left /\ ~right -> "s"
        [] OTHER -> NoDirection

\* what the press that opened the session was classified as
Classified == IF isResizing THEN resizeDirection ELSE NoDirection

\* C11: for every position of a box wider and higher than twice the
\* tolerance, the classifier returns the corner when the position is in the
\* bands of two adjacent sides, otherwise the side whose band holds it,
\* otherwise none.
C11_ClassifierFollowsBands ==
  (lastEvent = "press" /\ HasButton(activeButtonId)) =>
    LET b == FindButton(activeButtonId)
    IN  (b.width > 2 * tolerance /\ b.height > 2 * tolerance) =>
          Classified = HitZone(dragOffset.x, dragOffset.y, b.width, b.height)

\* a press in the left band, clear of the top and bottom bands, of the
\* widest box was classified w
C11_LeftBandOfWideBox ==
  /\ lastEvent = "press"
  /\ HasButton(activeButtonId)
  /\ FindButton(activeButtonId).width = 120
  /\ dragOffset.x = 7 /\ dragOffset.y = 20
  /\ Classified = "w"

-----------------------------------------------------------------------------
(* Properties of single moves (checked under SpecMove).  pointer' is the    *)
(* event a move step handled.                                                *)

\* v brought into [lo, hi]
ClampInto(v, lo, hi) == IF v < lo THEN lo ELSE IF v > hi THEN hi ELSE v

\* this step is a move event taking the drag branch (line 174)
DragStep ==
  /\ isDragging
  /\ HasButton(activeButtonId)
  /\ lastEvent' = "move"

\* the pointer of the handled event less the captured offset, relative to the
\* canvas origin of that event
Desired == [x |-> pointer'[1] - dragOffset.x - pointer'[3],
            y |-> pointer'[2] - dragOffset.y - pointer'[4]]

\* C12 as stated: on each Dragging move the target's new top left is
\* pointer - offset relative to the canvas origin of that event, clamped into
\* [0, canvasWidth - width] x [0, canvasHeight - height]; width and height
\* are unchanged.
C12_DragFollowsPointer ==
  [][(CanvasIsLength /\ DragStep) =>
       LET b == FindButton(activeButtonId)
           a == (FindButton(activeButtonId))'
       IN  /\ a.x = ClampInto(Desired.x, 0, canvasWidth - b.width)
           /\ a.y = ClampInto(Desired.y, 0, canvasHeight - b.height)
           /\ a.width = b.width
           /\ a.height = b.height]_vars

\* C12 amended: the clamp is into [0, max(0, canvasWidth - width)] x
\* [0, max(0, canvasHeight - height)], on a canvas rendered at its numeric
\* dimensions.
C12_DragFollowsPointerOrOrigin ==
  [][(CanvasIsLength /\ DragStep) =>
       LET b == FindButton(activeButtonId)
           a == (FindButton(activeButtonId))'
       IN  /\ a.x = ClampInto(Desired.x, 0, Max(0, canvasWidth - b.width))
           /\ a.y = ClampInto(Desired.y, 0, Max(0, canvasHeight - b.height))
           /\ a.width = b.width
           /\ a.height = b.height]_vars

\* the 50x50 button of an 800x500 canvas, dragged with a zero offset to the
\* pointer (1000, 1000), sits at (750, 450)
C12_DraggedToFarCorner ==
  /\ DragMoved
  /\ moves = 1
  /\ canvasWidth = 800 /\ canvasHeight = 500
  /\ dragOffset = [x |-> 0, y |-> 0]
  /\ pointer = <<1000, 1000, 0, 0>>
  /\ LET b == FindButton(activeButtonId)
     IN  b.x = 750 /\ b.y = 450 /\ b.width = 50 /\ b.height = 50

\* this step is a move event taking the resize branch (line 187) with
\* direction d
ResizeStep(d) ==
  /\ ~isDragging
  /\ isResizing
  /\ resizeDirection = d
  /\ HasButton(activeButtonId)
  /\ lastEvent' = "move"

\* the pointer of the handled event, relative to the canvas origin of that
\* event
Local == [x |-> pointer'[1] - pointer'[3], y |-> pointer'[2] - pointer'[4]]

\* C13: in an se resize of a button inside the canvas, a pointer less than 50
\* units right of and below the button's top left makes width and height
\* exactly 50 and leaves x and y unchanged.
C13_SeResizeFloorsAtMinSize ==
  [][LET b == FindButton(activeButtonId)
         a == (FindButton(activeButtonId))'
     IN  (/\ CanvasIsLength /\ ResizeStep("se") /\ TargetInsideCanvas
          /\ Local.x - b.x < minSize /\ Local.y - b.y < minSize)
           => (a.width = minSize /\ a.height = minSize
               /\ a.x = b.x /\ a.y = b.y)]_vars

\* C14: in an nw resize, a pointer beyond the canvas's top left corner puts
\* x and y at 0 and leaves the right and bottom edges no further out than
\* they were when the gesture started: (10, 10) 100x100 with the pointer at
\* (-50, -50) becomes (0, 0) 110x110.  Stated for the first move of a gesture
\* on a button inside the canvas.
C14_NwResizeKeepsFarCorner ==
  [][LET b == FindButton(activeButtonId)
         a == (FindButton(activeButtonId))'
     IN  (/\ CanvasIsLength /\ ResizeStep("nw") /\ TargetInsideCanvas
          /\ moves = 0
          /\ Local.x < 0 /\ Local.y < 0)
           => (/\ a.x = 0 /\ a.y = 0
               /\ a.x + a.width <= b.x + b.width
               /\ a.y + a.height <= b.y + b.height)]_vars

\* C15: a move event of a resize with direction e changes only the target's
\* width: x, y and height are after the move what they were before it,
\* wherever the pointer is.  Stated for a button inside the canvas.
C15_EastResizeChangesWidthOnly ==
  [][LET b == FindButton(activeButtonId)
         a == (FindButton(activeButtonId))'
     IN  (CanvasIsLength /\ ResizeStep("e") /\ TargetInsideCanvas)
           => (a.x = b.x /\ a.y = b.y /\ a.height = b.height)]_vars

\* C16: during a resize the edge opposite to the dragged one stays where it
\* was when the gesture started: x + width for w, nw, sw and y + height for
\* n, nw, ne.  Stated for the first move of a gesture on a button inside the
\* canvas, with the pointer inside the canvas.
C16_OppositeEdgeAnchored ==
  [][LET b == FindButton(activeButtonId)
         a == (FindButton(activeButtonId))'
     IN  \A d \in Directions :
           (/\ CanvasIsLength /\ ResizeStep(d) /\ TargetInsideCanvas
            /\ moves = 0
            /\ 0 <= Local.x /\ Local.x <= canvasWidth
            /\ 0 <= Local.y /\ Local.y <= canvasHeight)
             => /\ d \in {"w", "nw", "sw"} => a.x + a.width = b.x + b.width
                /\ d \in {"n", "nw", "ne"} => a.y + a.height = b.y + b.height]_vars

-----------------------------------------------------------------------------
(* Properties of a session whose target is gone (checked under SpecProp) *)

\* C17: a move event that arrives when no button has the session's target id
\* changes no button and no session state, and a release then returns the
\* machine to Idle.
C17_MissingTargetIsNoOp ==
  [][((isDragging \/ isResizing) /\ ~HasButton(activeButtonId)) =>
       /\ (lastEvent' = "move") => (buttons' = buttons /\ UNCHANGED session)
       /\ (lastEvent' = "release") => (Idle' /\ buttons' = buttons)]_vars

\* a move event has arrived in a session whose target is in no button of a
\* collection that holds another one
C17_MovedWithoutTarget ==
  /\ lastEvent = "move"
  /\ isDragging \/ isResizing
  /\ ~HasButton(activeButtonId)
  /\ buttons # << >>

-----------------------------------------------------------------------------
(* Properties of Add button and the property dialog (checked under           *)
(* SpecEditor)                                                               *)

\* C18: no two buttons of the collection share an id, whatever sequence of
\* Add button actions has run and however quickly they followed one another.
C18_ButtonIdsUnique ==
  \A i, j \in DOMAIN buttons : i # j => buttons[i].id # buttons[j].id

\* C19: cancelling the dialog of a button that Add button has just created
\* removes that button: the collection is again the one before the Add, which
\* is the collection without the button the Add appended.
C19_CancelAfterAddRemoves ==
  [][(lastEvent = "add" /\ lastEvent' = "cancel dialog") =>
       buttons' = SubSeq(buttons, 1, Len(buttons) - 1)]_vars

\* C20: Add button appends exactly one button, 120x40 at (50, 50); it is
\* normal and linked to the first range when a range exists, a label linked
\* to "label-only" when none exists; the buttons that were there are
\* unchanged.
C20_AddAppendsDefaultButton ==
  [][(lastEvent' = "add") =>
       /\ Len(buttons') = Len(buttons) + 1
       /\ SubSeq(buttons', 1, Len(buttons)) = buttons
       /\ LET new == buttons'[Len(buttons')]
          IN  /\ new.x = 50 /\ new.y = 50
              /\ new.width = 120 /\ new.height = 40
              /\ Len(allRanges) > 0 =>
                   (new.type = "normal" /\ new.linkedItem = allRanges[1])
              /\ Len(allRanges) = 0 =>
                   (new.type = "label" /\ new.linkedItem = "label-only")]_vars

\* a button has been added to the stored chart, whose ranges exist: it is
\* normal, linked to the first range, and the stored button is as it was
C20_AddedNextToStored ==
  /\ lastEvent = "add"
  /\ Len(buttons) = 2
  /\ buttons[1] = OneButtonChart.buttons[1]
  /\ buttons[2].type = "normal"
  /\ buttons[2].linkedItem = allRanges[1]
  /\ isButtonModalOpen

\* C21: confirming the dialog replaces exactly the one stored button whose id
\* is the draft's by the draft, leaves every other button and the number of
\* buttons unchanged, closes the dialog and clears the draft.
C21_SaveReplacesOneButton ==
  [][(lastEvent' = "save" /\ editingButton # NoButton) =>
       /\ Len(buttons') = Len(buttons)
       /\ \A i \in DOMAIN buttons :
            buttons[i].id = editingButton.id => buttons'[i] = editingButton
       /\ Cardinality({i \in DOMAIN buttons : buttons'[i] # buttons[i]}) <= 1
       /\ ~isButtonModalOpen'
       /\ editingButton' = NoButton]_vars

-----------------------------------------------------------------------------
(* Properties of the commit (SpecCommit) and of the canvas dimensions        *)
(* (SpecCanvas)                                                              *)

\* the chart the editor's current state describes
CurrentChart ==
  [id |-> chart.id, name |-> chartName, buttons |-> buttons,
   canvasWidth |-> canvasWidth, canvasHeight |-> canvasHeight]

\* C24: a chart is emitted only by the back action, once per back action, and
\* it carries the chart's id with the current name, buttons and canvas width
\* and height; no press, move or release emits a chart.
C24_CommitOnlyOnBack ==
  [][/\ saved' # << >> => lastEvent' = "back"
     /\ lastEvent' = "back" => saved' = <<CurrentChart>>]_vars

\* a chart was committed after a gesture moved one of its buttons
C24_CommittedAfterGesture ==
  /\ lastEvent = "back"
  /\ Len(saved) = 1
  /\ saved[1].id = chart.id
  /\ saved[1].buttons = buttons
  /\ saved[1].buttons # chart.buttons

\* C25: every chart emitted on commit has a canvas width and a canvas height
\* that are numbers of at least 100, whatever dimension edits, focus losses
\* and Maximize actions came before.
C25_CommittedCanvasAtLeastMin ==
  \A i \in DOMAIN saved :
    /\ saved[i].canvasWidth # NaN /\ saved[i].canvasWidth >= minCanvasSize
    /\ saved[i].canvasHeight # NaN /\ saved[i].canvasHeight >= minCanvasSize

\* C26: a dimension edit, a focus loss of a dimension field and Maximize canvas
\* leave the x, y, width and height of every button unchanged, also when a
\* button then reaches beyond the canvas.
C26_CanvasChangeKeepsButtons ==
  [][lastEvent' \in {"dimension change", "dimension blur", "maximize"} =>
       /\ Len(buttons') = Len(buttons)
       /\ \A i \in DOMAIN buttons :
            /\ buttons'[i].x = buttons[i].x
            /\ buttons'[i].y = buttons[i].y
            /\ buttons'[i].width = buttons[i].width
            /\ buttons'[i].height = buttons[i].height]_vars

\* Maximize has left the stored button reaching beyond the canvas
C26_ButtonBeyondMaximizedCanvas ==
  /\ lastEvent = "maximize"
  /\ \E i \in DOMAIN buttons :
       /\ buttons[i] = OneButtonChart.buttons[i]
       /\ buttons[i].x + buttons[i].width > canvasWidth

-----------------------------------------------------------------------------
(* Mouse and touch (SpecMove) *)

\* C27: for the same session, buttons, canvas rectangle and pointer
\* coordinates, the touch press and move handlers, reading the first contact
\* point, leave the same session and the same button geometry as the mouse
\* press and move handlers.
C27_MouseAndTouchAgree ==
  /\ \A p \in MovePointerEvents \cup PointerEvents :
       \A canvasRect \in CanvasRects(p[3], p[4]) :
         handleTouchMove(p[1], p[2], canvasRect) =
           handleMouseMove(p[1], p[2], canvasRect)
  /\ \A i \in DOMAIN buttons, onSettingsIcon \in BOOLEAN :
       \A q \in PressPoints(buttons[i], onSettingsIcon) :
         \A s \in {Session, IdleSession} :
           handleTouchStart(s, buttons[i], onSettingsIcon, q[1], q[2]) =
             handleMouseDown(s, buttons[i], onSettingsIcon, q[1], q[2])

\* a resize is under way after a move, and a further move event would change
\* the target the same way through either handler
C27_ResizeMovesEitherWay ==
  /\ lastEvent = "move"
  /\ isResizing /\ ~isDragging
  /\ \E p \in MovePointerEvents : \E canvasRect \in CanvasRects(p[3], p[4]) :
       /\ handleTouchMove(p[1], p[2], canvasRect) # buttons
       /\ handleTouchMove(p[1], p[2], canvasRect) =
            handleMouseMove(p[1], p[2], canvasRect)

-----------------------------------------------------------------------------
(* Properties of the viewer (SpecViewer) *)

\* the last step activated a button of the given role
Activated(type) == lastEvent' = "activate" /\ activated'.type = type

\* C22: activating a button of role exit emits exactly one navigation to the
\* chart list, looks no range up and leaves displayedRange and
\* showMatrixView unchanged.
C22_ExitNavigatesOnly ==
  [][Activated("exit") =>
       /\ effects' = <<"back to charts">>
       /\ saved' = << >>
       /\ displayedRange' = displayedRange
       /\ showMatrixView' = showMatrixView]_vars

\* the exit button of the chart has been activated
C22_ExitActivated ==
  /\ lastEvent = "activate"
  /\ activated.type = "exit"
  /\ effects = <<"back to charts">>
  /\ ~showMatrixView

\* C23: activating a normal button whose linkedItem matches no supplied range
\* raises the not-found notice, leaves displayedRange null and the buttons
\* view shown, and does not navigate away: the buttons can be activated again.
C23_DanglingLinkNotifies ==
  [][(Activated("normal") /\
      FindRange(allRanges, activated'.linkedItem) = NoRange) =>
       /\ \E k \in DOMAIN effects' : effects'[k] = "alert"
       /\ \A k \in DOMAIN effects' : effects'[k] # "back to charts"
       /\ displayedRange' = NoRange
       /\ ~showMatrixView'
       /\ viewerMounted'
       /\ chart' = chart]_vars

\* a normal button linked to a range that is not supplied has been activated
C23_DanglingLinkActivated ==
  /\ lastEvent = "activate"
  /\ activated.type = "normal"
  /\ activated.linkedItem = "R1"
  /\ FindRange(allRanges, "R1") = NoRange
  /\ effects = <<"find", "alert">>

\* C28: whenever the matrix view is shown, displayedRange is a range.
C28_MatrixViewHasRange ==
  showMatrixView => displayedRange # NoRange

\* the matrix view shows a range that the registry has lost since
C28_ShownRangeLeftRegistry ==
  /\ showMatrixView
  /\ displayedRange = "R1"
  /\ FindRange(allRanges, "R1") = NoRange
  /\ lastEvent = "ranges change"

====
